---- MODULE Spec2Model ----
(***************************************************************************)
(* addons/web/static/src/core/utils/hooks.js: the four custom hooks        *)
(* useAutofocus, useBus, useListener and useService, each used by one      *)
(* component whose lifecycle (setup, mount, patch, destroy) is driven by    *)
(* the host framework.  The variable hook says which of the four hooks the *)
(* component under observation calls in its setup.                         *)
(***************************************************************************)
EXTENDS Naturals, Sequences, FiniteSets

VARIABLES
    hook,             \* the hook the component calls in setup
    status,           \* component.__owl__.status
    setup,            \* outcome of the hook call made in setup()
    thrown,           \* the error the hook call threw, if any
    hasEffect,        \* useEffect(...) was reached by the hook call
    deps,             \* the dependencies the effect last ran with
    cleanup,          \* the cleanup closure returned by the last effect run
    patched,          \* the framework has patched the component at least once
    services,         \* component.env.services
    metadata,         \* SERVICES_METADATA
    svc,              \* what useService returned (or the error it threw)
    calls,            \* the calls made on the value useService returned
    busListeners,     \* listeners registered on the bus
    binds,            \* number of function objects created by callback.bind
    adds,             \* calls of addEventListener made by the effect
    removes,          \* calls of removeEventListener that removed a listener
    lastDispatch,     \* what the last bus dispatch did
    eventName,        \* the event name the hook was called with
    serviceName,      \* the service name useService was called with
    largs,            \* arguments[1..3] of the call of useListener
    boundHandler,     \* the boundHandler closure useListener built
    elListeners,      \* listeners registered on comp.el
    lastEvent,        \* what the last DOM event did
    isSmall,          \* comp.env.isSmall
    trigger,          \* the function useAutofocus returned
    forceFocusCount,  \* the counter of useAutofocus
    refEl,            \* ref.el: the element the reference resolves to
    elState,          \* value length and selection of that element
    triggersSinceUpdate, \* calls of the trigger since the last mount or patch
    mountEl,          \* ref.el at the first render
    lastUpdate        \* what the last mount or patch did

\* the environment of the component
envVars == <<hook, services, metadata, isSmall>>
\* what the hook call made in setup() leaves behind
setupVars == <<setup, thrown, hasEffect, eventName, serviceName, svc, largs, boundHandler, trigger>>
\* what the effect of the hook and its cleanup act on
effectVars == <<deps, cleanup, busListeners, elListeners, binds, adds, removes, refEl, elState>>
\* the trigger of useAutofocus and the record of the updates
focusVars == <<forceFocusCount, triggersSinceUpdate, mountEl, lastUpdate>>
\* what the observers recorded
obsVars == <<lastDispatch, lastEvent>>

vars == <<envVars, setupVars, effectVars, obsVars, focusVars, status, patched, calls>>

-----------------------------------------------------------------------------
(* Bounds of the model *)

MaxCalls == 2
MaxTriggers == 2
MaxValueLen == 1

Hooks == {"useService", "useBus", "useListener", "useAutofocus"}

-----------------------------------------------------------------------------
(* Component lifecycle: the status codes of component.__owl__.status *)

CREATED == 0
MOUNTED == 1
DESTROYED == 2

-----------------------------------------------------------------------------
(* useService and _protectMethod *)

ServiceNames == {"fnService", "objService", "missing"}
Methods == {"m1", "m2"}
ArgValues == {"a1", "a2"}
Results == {"v1"}
Errors == {"e1"}

\* wrapped: the members of the service object itself that were replaced by
\* a guarded wrapper.
Absent == [present |-> FALSE, isFunction |-> FALSE, wrapped |-> {}]
FnService == [present |-> TRUE, isFunction |-> TRUE, wrapped |-> {}]
ObjService == [present |-> TRUE, isFunction |-> FALSE, wrapped |-> {}]
\* env.services: a function service, an object service with the members m1
\* and m2, and a name that is not registered.
Registry ==
    [n \in ServiceNames |->
        IF n = "fnService" THEN FnService
        ELSE IF n = "objService" THEN ObjService ELSE Absent]

NotListed == [listed |-> FALSE, methods |-> <<>>]
ListedM1 == [listed |-> TRUE, methods |-> <<"m1">>]
\* SERVICES_METADATA: lists every name (with the method m1) or none.
Metadatas == {[n \in ServiceNames |-> NotListed], [n \in ServiceNames |-> ListedM1]}

NoError == <<>>
ErrNotAvailable(name) == <<"Service", name, "is not available">>
ErrDestroyed == <<"Component is destroyed">>

Range(s) == {s[i] : i \in DOMAIN s}

NoService ==
    [error |-> NoError, kind |-> "none", name |-> "none", guardedMethods |-> {},
     registry |-> Registry]

\* A faulty loop: the wrappers are assigned to the service itself.
RECURSIVE WrapMethods_onService(_, _, _)
WrapMethods_onService(heap, target, methods) ==
    IF methods = <<>> THEN heap
    ELSE WrapMethods_onService([heap EXCEPT !.service = @ \cup {Head(methods)}],
                               target, Tail(methods))

\* for (let method of methods) target[method] = _protectMethod(...): heap
\* gives, for the service and for the object created from it, the members
\* that are wrappers assigned to that object.
RECURSIVE WrapMethods(_, _, _)
WrapMethods(heap, target, methods) ==
    IF methods = <<>> THEN heap
    ELSE WrapMethods([heap EXCEPT ![target] = @ \cup {Head(methods)}],
                     target, Tail(methods))

\* A faulty useService: the registry is only consulted for the names that
\* SERVICES_METADATA lists.
useService_throwsIfListedOnly(name, reg, meta) ==
    IF ~reg[name].present /\ meta[name].listed
    THEN [NoService EXCEPT !.error = ErrNotAvailable(name)]
    ELSE IF meta[name].listed /\ reg[name].present
    THEN IF reg[name].isFunction
         THEN [error |-> NoError, kind |-> "fn", name |-> name, guardedMethods |-> {"call"},
               registry |-> reg]
         ELSE LET heap == WrapMethods([service |-> reg[name].wrapped, result |-> {}],
                                      "result", meta[name].methods)
              IN [error |-> NoError, kind |-> "proxy", name |-> name,
                  guardedMethods |-> heap.result \cup heap.service,
                  registry |-> [reg EXCEPT ![name].wrapped = heap.service]]
    ELSE [error |-> NoError, kind |-> "raw", name |-> name, guardedMethods |-> {},
          registry |-> reg]

\* useService(name): the value returned, or the error thrown.
\* kind "raw" is the registry's own service, "fn" a guarded function,
\* "proxy" an object created from the service with guarded methods.
useService(name, reg, meta) ==
    IF ~reg[name].present
    THEN [NoService EXCEPT !.error = ErrNotAvailable(name)]
    ELSE IF meta[name].listed
    THEN IF reg[name].isFunction
         THEN [error |-> NoError, kind |-> "fn", name |-> name, guardedMethods |-> {"call"},
               registry |-> reg]
         ELSE LET heap == WrapMethods([service |-> reg[name].wrapped, result |-> {}],
                                      "result", meta[name].methods)
              IN [error |-> NoError, kind |-> "proxy", name |-> name,
                  guardedMethods |-> heap.result \cup heap.service,
                  registry |-> [reg EXCEPT ![name].wrapped = heap.service]]
    ELSE [error |-> NoError, kind |-> "raw", name |-> name, guardedMethods |-> {},
          registry |-> reg]

\* The members that can be called on the value useService returned.
Callable(s) ==
    IF s.kind = "none" THEN {}
    ELSE IF services[s.name].isFunction THEN {"call"} ELSE Methods

\* A faulty receiver: a guarded method runs with the proxy as this.
Receiver_proxyAsThis(s, m) ==
    IF m = "call" THEN IF s.kind = "fn" THEN "null" ELSE "undefined"
    ELSE IF s.kind = "proxy" THEN "proxy" ELSE "service"

\* The receiver fn runs with: _protectMethod's caller for a guarded member,
\* the object the member is read from otherwise.
Receiver(s, m) ==
    IF m \in s.guardedMethods
    THEN IF s.kind = "fn" THEN "null" ELSE "service"
    ELSE IF m = "call" THEN "undefined"
    ELSE IF s.kind = "proxy" THEN "proxy" ELSE "service"

IdleCall ==
    [pc |-> "idle", guarded |-> FALSE, method |-> "none", args |-> "none",
     aliveAtInvoke |-> FALSE, thrown |-> FALSE,
     fnCalls |-> 0, fnThis |-> "none", fnArgs |-> "none",
     under |-> "none", underVal |-> <<>>,
     destroyedAtSettle |-> FALSE, destroyedAtResume |-> FALSE,
     wrapper |-> "none", wrapperVal |-> <<>>]

\* throw inside the async arrow function: the caller gets a rejected promise.
AsyncThrow(call, err) ==
    [call EXCEPT !.pc = "done", !.wrapper = "rejected", !.wrapperVal = err]

\* fn.call(caller, ...args): the underlying implementation starts.
CallFn(call, caller, args) ==
    [call EXCEPT !.pc = "awaiting", !.fnCalls = @ + 1, !.fnThis = caller,
                 !.fnArgs = args, !.under = "pending", !.wrapper = "pending"]

\* A faulty wrapper: fn is called before the status is tested.
_protectMethod_enter_unguarded(call, st, caller, args) ==
    IF st = DESTROYED
    THEN AsyncThrow(CallFn(call, caller, args), ErrDestroyed)
    ELSE CallFn(call, caller, args)

\* A faulty wrapper: a plain function instead of an async one, whose throw
\* reaches the caller.
_protectMethod_enter_sync(call, st, caller, args) ==
    IF st = DESTROYED
    THEN [call EXCEPT !.pc = "done", !.thrown = TRUE, !.wrapperVal = ErrDestroyed]
    ELSE CallFn(call, caller, args)

\* The wrapper from its entry to the await; st is the status then.
_protectMethod_enter(call, st, caller, args) ==
    IF st = DESTROYED
    THEN AsyncThrow(call, ErrDestroyed)
    ELSE CallFn(call, caller, args)

\* A faulty wrapper: the result is returned without a look at the status.
_protectMethod_resume_unchecked(call, st) ==
    [call EXCEPT !.pc = "done", !.wrapper = call.under, !.wrapperVal = call.underVal]

\* The wrapper from the await to its return; st is the status then.
\* A rejected await throws out of the async function; a return of
\* new Promise(() => {}) leaves the wrapper's promise pending for ever.
_protectMethod_resume(call, st) ==
    IF call.under = "rejected"
    THEN [call EXCEPT !.pc = "done", !.wrapper = "rejected", !.wrapperVal = call.underVal]
    ELSE IF st = DESTROYED
    THEN [call EXCEPT !.pc = "done"]
    ELSE [call EXCEPT !.pc = "done", !.wrapper = "fulfilled", !.wrapperVal = call.underVal]

CallIds == 1 .. MaxCalls

\* The component's setup calls useService(serviceName).
Setup_useService(name) ==
    /\ hook = "useService"
    /\ setup = "pending"
    /\ serviceName' = name
    /\ LET r == useService(name, services, metadata) IN
        /\ svc' = r
        /\ services' = r.registry
        /\ thrown' = r.error
        /\ setup' = IF r.error = NoError THEN "done" ELSE "threw"
    /\ UNCHANGED <<hasEffect, eventName, largs, boundHandler, trigger>>
    /\ UNCHANGED <<hook, metadata, isSmall>>
    /\ UNCHANGED <<effectVars, obsVars, status, patched, calls, focusVars>>

\* A caller invokes member m of the value useService returned.
Invoke(c, m, a) ==
    /\ hook = "useService"
    /\ setup = "done"
    /\ calls[c].pc = "idle"
    /\ c > 1 => calls[c - 1].pc # "idle"
    /\ m \in Callable(svc)
    /\ LET start == [IdleCall EXCEPT !.method = m, !.args = a,
                                     !.guarded = (m \in svc.guardedMethods),
                                     !.aliveAtInvoke = (status # DESTROYED)]
           next == IF m \in svc.guardedMethods
                   THEN _protectMethod_enter(start, status, Receiver(svc, m), a)
                   ELSE CallFn(start, Receiver(svc, m), a)
       IN calls' = [calls EXCEPT ![c] = next]
    /\ UNCHANGED <<envVars, setupVars, effectVars, obsVars, status, patched, focusVars>>

\* The underlying call settles.  An unguarded member's promise is the
\* promise the caller holds; a guarded one queues the wrapper's continuation.
Settle(c, outcome, v) ==
    /\ hook = "useService"
    /\ calls[c].under = "pending"
    /\ calls' = [calls EXCEPT ![c] =
            IF calls[c].guarded
            THEN [@ EXCEPT !.pc = "queued", !.under = outcome, !.underVal = v,
                           !.destroyedAtSettle = (status = DESTROYED)]
            ELSE [@ EXCEPT !.pc = "done", !.under = outcome, !.underVal = v,
                           !.destroyedAtSettle = (status = DESTROYED),
                           !.wrapper = outcome, !.wrapperVal = v]]
    /\ UNCHANGED <<envVars, setupVars, effectVars, obsVars, status, patched, focusVars>>

\* The wrapper's continuation runs (a microtask after the await settled).
Resume(c) ==
    /\ hook = "useService"
    /\ calls[c].pc = "queued"
    /\ calls' = [calls EXCEPT ![c] =
            [_protectMethod_resume(@, status) EXCEPT !.destroyedAtResume = (status = DESTROYED)]]
    /\ UNCHANGED <<envVars, setupVars, effectVars, obsVars, status, patched, focusVars>>

-----------------------------------------------------------------------------
(* Listeners of an event target (the bus, or the component's root element) *)

NoCleanup == [kind |-> "none", target |-> "none", type |-> "none", id |-> 0, capture |-> FALSE]

\* target.addEventListener(type, listener, options): listener is the
\* function object number id, which runs the callback with this = boundThis.
AddEventListener(listeners, type, id, boundThis, capture) ==
    listeners \cup {[type |-> type, id |-> id, boundThis |-> boundThis, capture |-> capture]}

\* target.removeEventListener(type, listener, options)
RemoveEventListener(listeners, type, id, capture) ==
    {l \in listeners : ~(l.type = type /\ l.id = id /\ l.capture = capture)}

-----------------------------------------------------------------------------
(* useBus *)

BusEvents == {"update", "other"}

\* A faulty effect: the cleanup binds the callback again, and so removes a
\* function that was never added.
useBus_effect_leak(w, ev) ==
    [w EXCEPT !.binds = @ + 1, !.adds = @ + 1,
              !.busListeners = AddEventListener(@, ev, w.binds + 1, "component", FALSE),
              !.cleanup = [kind |-> "removeEventListener", target |-> "bus", type |-> ev,
                           id |-> w.binds + 2, capture |-> FALSE]]

\* A faulty effect: the callback is added as it is, not bound.
useBus_effect_unbound(w, ev) ==
    [w EXCEPT !.binds = @ + 1, !.adds = @ + 1,
              !.busListeners = AddEventListener(@, ev, w.binds + 1, "undefined", FALSE),
              !.cleanup = [kind |-> "removeEventListener", target |-> "bus", type |-> ev,
                           id |-> w.binds + 1, capture |-> FALSE]]

\* The effect of useBus: bind, add the listener, return the cleanup.
useBus_effect(w, ev) ==
    [w EXCEPT !.binds = @ + 1, !.adds = @ + 1,
              !.busListeners = AddEventListener(@, ev, w.binds + 1, "component", FALSE),
              !.cleanup = [kind |-> "removeEventListener", target |-> "bus", type |-> ev,
                           id |-> w.binds + 1, capture |-> FALSE]]

\* The dependencies of the effect of useBus: () => []
useBus_deps == <<>>

\* The component's setup calls useBus(bus, ev, callback).
Setup_useBus(ev) ==
    /\ hook = "useBus"
    /\ setup = "pending"
    /\ setup' = "done"
    /\ thrown' = NoError
    /\ eventName' = ev
    /\ hasEffect' = TRUE
    /\ UNCHANGED <<serviceName, svc, largs, boundHandler, trigger>>
    /\ UNCHANGED <<envVars, effectVars, obsVars, status, patched, calls, focusVars>>

NoDispatch ==
    [type |-> "none", status |-> CREATED, setup |-> "pending", calls |-> 0, thisArgs |-> {}]

\* bus.trigger(ev): every listener registered for ev runs once.
BusDispatch(ev) ==
    /\ hook = "useBus"
    /\ LET ls == {l \in busListeners : l.type = ev} IN
        lastDispatch' = [type |-> ev, status |-> status, setup |-> setup,
                         calls |-> Cardinality(ls),
                         thisArgs |-> {l.boundThis : l \in ls}]
    /\ UNCHANGED <<envVars, setupVars, effectVars, lastEvent, status, patched, calls, focusVars>>

-----------------------------------------------------------------------------
(* useListener *)

\* JavaScript values: t is what typeof gives, v tells the values apart.
Undefined == [t |-> "undefined", v |-> "undefined"]
JsNull == [t |-> "object", v |-> "null"]
JsString(str) == [t |-> "string", v |-> str]
JsFunction(f) == [t |-> "function", v |-> f]
JsObject(o) == [t |-> "object", v |-> o]
Truthy(x) == ~(x = Undefined \/ x = JsNull \/ x = JsString(""))

\* The values arguments[1], arguments[2] and arguments[3] are drawn from.
Arg1Values == {JsString(".sel"), JsString(""), JsFunction("handler"), Undefined}
Arg2Values == {JsFunction("handler"), JsObject("capture"), Undefined}
Arg3Values == {JsObject("capture"), Undefined}

\* addEventListener's reading of its third argument
Capture(options) == options = JsObject("capture")

DomEvents == {"click", "keydown"}
\* the event names useListener is called with
ListenedEvents == {"click"}

\* The document: outer > root > child > grandchild, and outer > sibling.
\* root is comp.el.
Elements == {"outer", "root", "child", "grandchild", "sibling"}
NullEl == "null"
RootEl == "root"
parentElement(el) ==
    CASE el = "grandchild" -> "child"
      [] el = "child" -> "root"
      [] el = "root" -> "outer"
      [] el = "sibling" -> "outer"
      [] OTHER -> NullEl

\* The sets of elements that match the selector when an event is
\* dispatched: none, any single element, or an ancestor of the root together
\* with an element below the root.
MatchSets ==
    {m \in SUBSET Elements : Cardinality(m) <= 1}
        \cup {{"outer", "child"}, {"outer", "grandchild"}}

\* el and its ancestors: the elements an event dispatched on el passes.
RECURSIVE Path(_)
Path(el) == IF el = NullEl THEN {} ELSE {el} \cup Path(parentElement(el))

ErrHandler == <<"The handler must be a function">>

NoHandler ==
    [id |-> 0, delegated |-> FALSE, querySelector |-> JsNull, handler |-> Undefined,
     capture |-> FALSE]

\* A faulty useListener: the effect is registered before the handler is
\* checked.
useListener_registersFirst(a1, a2, a3) ==
    LET shifted == a1.t # "string"
        querySelector == IF shifted THEN JsNull ELSE a1
        handler == IF shifted THEN a1 ELSE a2
        options == IF shifted
                   THEN IF Truthy(a2) THEN a2 ELSE JsObject("empty")
                   ELSE IF a3 = Undefined THEN JsObject("empty") ELSE a3
    IN  [threw |-> handler.t # "function",
         error |-> IF handler.t # "function" THEN ErrHandler ELSE NoError,
         hasEffect |-> TRUE,
         boundHandler |-> [id |-> 1, delegated |-> Truthy(querySelector),
                           querySelector |-> querySelector, handler |-> handler,
                           capture |-> Capture(options)]]

\* useListener up to useEffect: the argument shapes, the check of the
\* handler, and the boundHandler closure.  a1..a3 are arguments[1..3].
useListener(a1, a2, a3) ==
    LET shifted == a1.t # "string"
        querySelector == IF shifted THEN JsNull ELSE a1
        handler == IF shifted THEN a1 ELSE a2
        options == IF shifted
                   THEN IF Truthy(a2) THEN a2 ELSE JsObject("empty")
                   ELSE IF a3 = Undefined THEN JsObject("empty") ELSE a3
    IN  IF handler.t # "function"
        THEN [threw |-> TRUE, error |-> ErrHandler, hasEffect |-> FALSE,
              boundHandler |-> NoHandler]
        ELSE [threw |-> FALSE, error |-> NoError, hasEffect |-> TRUE,
              boundHandler |-> [id |-> 1, delegated |-> Truthy(querySelector),
                                querySelector |-> querySelector, handler |-> handler,
                                capture |-> Capture(options)]]

\* A faulty loop: the walk does not stop at the root.
RECURSIVE Walk_pastRoot(_, _, _)
Walk_pastRoot(el, target, matching) ==
    IF el = NullEl \/ target # NullEl THEN el
    ELSE IF el \in matching THEN Walk_pastRoot(el, el, matching)
    ELSE Walk_pastRoot(parentElement(el), target, matching)

\* A faulty loop: the walk ends at the root before the root is tested.
RECURSIVE Walk_rootNotTested(_, _, _)
Walk_rootNotTested(el, target, matching) ==
    IF el = NullEl \/ target # NullEl THEN el
    ELSE IF el = RootEl THEN Walk_rootNotTested(NullEl, target, matching)
    ELSE IF el \in matching THEN Walk_rootNotTested(el, el, matching)
    ELSE Walk_rootNotTested(parentElement(el), target, matching)

\* The loop of the delegating boundHandler: el walks up from ev.target
\* until an element matches, or the root was tested, or the document ends.
\* matching is the set of elements el.matches(querySelector) holds for.
\* The value is el when the loop ends.
RECURSIVE Walk(_, _, _)
Walk(el, target, matching) ==
    IF el = NullEl \/ target # NullEl THEN el
    ELSE IF el \in matching THEN Walk(el, el, matching)
    ELSE IF el = RootEl THEN Walk(NullEl, target, matching)
    ELSE Walk(parentElement(el), target, matching)

\* The arguments the handler is called with: handler.call(comp, ev), or
\* the listener handler.bind(comp) called with the event.
HandlerArgs == <<"event">>

\* boundHandler(ev): does it call the handler?
CallsHandler(bh, evTarget, matching) ==
    IF bh.delegated THEN Walk(evTarget, NullEl, matching) # NullEl ELSE TRUE

\* A faulty effect: no cleanup is returned.
useListener_effect_noCleanup(w, ev, bh) ==
    [w EXCEPT !.adds = @ + 1,
              !.elListeners = AddEventListener(@, ev, bh.id, "component", bh.capture),
              !.cleanup = NoCleanup]

\* A faulty effect: the cleanup removes the listener without the options.
useListener_effect_dropsOptions(w, ev, bh) ==
    [w EXCEPT !.adds = @ + 1,
              !.elListeners = AddEventListener(@, ev, bh.id, "component", bh.capture),
              !.cleanup = [kind |-> "removeEventListener", target |-> "el", type |-> ev,
                           id |-> bh.id, capture |-> FALSE]]

\* The effect of useListener: add boundHandler on comp.el, return the cleanup.
useListener_effect(w, ev, bh) ==
    [w EXCEPT !.adds = @ + 1,
              !.elListeners = AddEventListener(@, ev, bh.id, "component", bh.capture),
              !.cleanup = [kind |-> "removeEventListener", target |-> "el", type |-> ev,
                           id |-> bh.id, capture |-> bh.capture]]

\* The dependencies of the effect of useListener: () => []
useListener_deps == <<>>

\* The component's setup calls useListener(ev, a1, a2, a3).
Setup_useListener(ev, a1, a2, a3) ==
    /\ hook = "useListener"
    /\ setup = "pending"
    /\ eventName' = ev
    /\ largs' = <<a1, a2, a3>>
    /\ LET r == useListener(a1, a2, a3) IN
        /\ setup' = IF r.threw THEN "threw" ELSE "done"
        /\ thrown' = r.error
        /\ hasEffect' = r.hasEffect
        /\ boundHandler' = r.boundHandler
    /\ UNCHANGED <<serviceName, svc, trigger>>
    /\ UNCHANGED <<envVars, effectVars, obsVars, status, patched, calls, focusVars>>

NoEvent ==
    [type |-> "none", inRoot |-> FALSE, matchOnPath |-> FALSE, matchInRoot |-> FALSE,
     rootMatches |-> FALSE,
     status |-> CREATED, listeners |-> 0, calls |-> 0, thisArgs |-> {}, args |-> {}]

\* An event of the given type is dispatched on target and bubbles; matching
\* is the set of elements that match the selector at that time.  Listeners of
\* comp.el run when the event passes comp.el.  The record of the event says
\* whether the target lies in the subtree of comp.el (inRoot), whether the
\* target is a matching element or a descendant of one
\* (matchOnPath), whether such an element lies in the subtree of comp.el
\* (matchInRoot), and whether comp.el itself matches (rootMatches).
DomDispatch(type, target, matching) ==
    /\ hook = "useListener"
    /\ LET ls == IF RootEl \in Path(target)
                 THEN {l \in elListeners : l.type = type}
                 ELSE {}
           fired == {l \in ls : CallsHandler(boundHandler, target, matching)}
       IN lastEvent' = [type |-> type, inRoot |-> (RootEl \in Path(target)),
                        matchOnPath |-> (matching \cap Path(target) # {}),
                        matchInRoot |-> (\E m \in matching \cap Path(target) :
                                            RootEl \in Path(m)),
                        rootMatches |-> (RootEl \in matching),
                        status |-> status, listeners |-> Cardinality(ls),
                        calls |-> Cardinality(fired),
                        thisArgs |-> {l.boundThis : l \in fired},
                        args |-> {HandlerArgs : l \in fired}]
    /\ UNCHANGED <<envVars, setupVars, effectVars, lastDispatch, status, patched, calls, focusVars>>

-----------------------------------------------------------------------------
(* useAutofocus *)

\* The elements the reference can resolve to, and their tag names: a text
\* input, an <input type="number">, a textarea and a div.
RefElements == {"input", "number", "textarea", "div"}
tagName(el) ==
    CASE el = "input" -> "INPUT"
      [] el = "number" -> "INPUT"
      [] el = "textarea" -> "TEXTAREA"
      [] OTHER -> "DIV"

\* Does the element have a text selection?  A textarea and a text input do;
\* an input of type number (or checkbox, date, ...) has a value and no
\* selection: its selectionStart reads null and cannot be assigned.
selectionApplies(el) == el \in {"input", "textarea"}

\* selection is <<selectionStart, selectionEnd>>, or <<>> on an element
\* that has none.
NoElState == [valueLen |-> 0, selection |-> <<>>]

\* The states an element can be in when a render puts it in the DOM.
FreshStates(el) ==
    IF selectionApplies(el)
    THEN {[valueLen |-> n, selection |-> <<0, 0>>] : n \in 0 .. MaxValueLen}
    ELSE IF tagName(el) = "INPUT"
    THEN {[valueLen |-> n, selection |-> <<>>] : n \in 0 .. MaxValueLen}
    ELSE {NoElState}

\* What a render can make of the reference: no element, the element it
\* already holds (in the state it has), or another element.
Renders ==
    IF hook # "useAutofocus" THEN {[el |-> NullEl, st |-> NoElState]}
    ELSE {[el |-> NullEl, st |-> NoElState]}
            \cup (IF refEl # NullEl THEN {[el |-> refEl, st |-> elState]} ELSE {})
            \cup UNION {{[el |-> e, st |-> st] : st \in FreshStates(e)} :
                            e \in RefElements \ {refEl}}

\* A faulty useAutofocus: env.isSmall is not consulted.
useAutofocus_ignoresSmall(small) == [hasEffect |-> TRUE, trigger |-> "focusOnUpdate"]

\* useAutofocus up to its return: nothing is registered when env.isSmall.
useAutofocus(small) ==
    IF small
    THEN [hasEffect |-> FALSE, trigger |-> "noop"]
    ELSE [hasEffect |-> TRUE, trigger |-> "focusOnUpdate"]

\* The effect of useAutofocus, called with el = ref.el.  The assignment
\* to selectionStart of an input element that has no selection throws an
\* InvalidStateError, which leaves the effect.
useAutofocus_effect(w, el) ==
    IF el # NullEl
    THEN LET toEnd == tagName(el) \in {"INPUT", "TEXTAREA"} IN
         [w EXCEPT !.focusCalls = @ + 1,
                   !.focusedEl = el,
                   !.elState = IF toEnd /\ selectionApplies(el)
                               THEN [@ EXCEPT !.selection =
                                        <<w.elState.valueLen, w.elState.valueLen>>]
                               ELSE @,
                   !.threw = toEnd /\ ~selectionApplies(el),
                   !.cleanup = NoCleanup]
    ELSE [w EXCEPT !.cleanup = NoCleanup]

\* Faulty dependencies: the element is left out.
useAutofocus_deps_noRef(el, count) == <<NullEl, count>>

\* The dependencies of the effect of useAutofocus: () => [ref.el, forceFocusCount]
useAutofocus_deps(el, count) == <<el, count>>

\* A faulty trigger: the counter is a flag that every call flips.
focusOnUpdate_flips(count) == IF count = 0 THEN 1 ELSE 0

\* A faulty trigger: the counter is left as it is.
focusOnUpdate_noIncrement(count) == count

\* focusOnUpdate(), the function useAutofocus returns
focusOnUpdate(count) == count + 1

\* The component's setup calls useAutofocus().
Setup_useAutofocus ==
    /\ hook = "useAutofocus"
    /\ setup = "pending"
    /\ setup' = "done"
    /\ thrown' = NoError
    /\ LET r == useAutofocus(isSmall) IN
        /\ hasEffect' = r.hasEffect
        /\ trigger' = r.trigger
    /\ UNCHANGED <<eventName, serviceName, svc, largs, boundHandler>>
    /\ UNCHANGED <<envVars, effectVars, obsVars, status, patched, calls, focusVars>>

\* The function useAutofocus returned is called.
Trigger ==
    /\ hook = "useAutofocus"
    /\ setup = "done"
    /\ triggersSinceUpdate < MaxTriggers
    /\ forceFocusCount < MaxTriggers
    /\ triggersSinceUpdate' = triggersSinceUpdate + 1
    /\ forceFocusCount' = IF trigger = "focusOnUpdate"
                          THEN focusOnUpdate(forceFocusCount)
                          ELSE forceFocusCount
    /\ UNCHANGED <<envVars, setupVars, effectVars, obsVars, status, patched, calls,
                   mountEl, lastUpdate>>

\* The user edits the text of the referenced element and moves the caret.
UserEdits(n, c) ==
    /\ hook = "useAutofocus"
    /\ status = MOUNTED
    /\ refEl # NullEl
    /\ tagName(refEl) \in {"INPUT", "TEXTAREA"}
    /\ c <= n
    /\ elState' = [valueLen |-> n,
                   selection |-> IF selectionApplies(refEl) THEN <<c, c>> ELSE <<>>]
    /\ UNCHANGED <<deps, cleanup, busListeners, elListeners, binds, adds, removes, refEl>>
    /\ UNCHANGED <<envVars, setupVars, obsVars, status, patched, calls, focusVars>>

-----------------------------------------------------------------------------
(* The framework: useEffect(effect, computeDependencies) and the lifecycle *)

\* The state as the render r leaves it, before the lifecycle callbacks run.
Rendered(r) ==
    [busListeners |-> busListeners, elListeners |-> elListeners, binds |-> binds,
     adds |-> adds, removes |-> removes,
     cleanup |-> cleanup, refEl |-> r.el, elState |-> r.st,
     focusCalls |-> 0, focusedEl |-> NullEl, threw |-> FALSE]

\* computeDependencies() of the hook in use, on the state w
ComputeDeps(w) ==
    CASE hook = "useBus" -> useBus_deps
      [] hook = "useListener" -> useListener_deps
      [] hook = "useAutofocus" -> useAutofocus_deps(w.refEl, forceFocusCount)
      [] OTHER -> <<>>

\* effect(...dependencies) of the hook in use, on the state w
Effect(w, d) ==
    CASE hook = "useBus" -> useBus_effect(w, eventName)
      [] hook = "useListener" -> useListener_effect(w, eventName, boundHandler)
      [] hook = "useAutofocus" -> useAutofocus_effect(w, d[1])
      [] OTHER -> w

\* The cleanup closure cl runs on the state w.
RunCleanup(w, cl) ==
    IF cl.kind = "removeEventListener"
    THEN LET before == IF cl.target = "bus" THEN w.busListeners ELSE w.elListeners
             after == RemoveEventListener(before, cl.type, cl.id, cl.capture)
             n == IF after # before THEN w.removes + 1 ELSE w.removes
         IN IF cl.target = "bus"
            THEN [w EXCEPT !.busListeners = after, !.removes = n]
            ELSE [w EXCEPT !.elListeners = after, !.removes = n]
    ELSE w

\* newDeps.some((val, i) => val !== dependencies[i])
ShouldReapply(old, new) == \E i \in DOMAIN new : new[i] # old[i]

SetWorld(w) ==
    /\ busListeners' = w.busListeners
    /\ elListeners' = w.elListeners
    /\ binds' = w.binds
    /\ adds' = w.adds
    /\ removes' = w.removes
    /\ cleanup' = w.cleanup
    /\ refEl' = w.refEl
    /\ elState' = w.elState

NoUpdate ==
    [kind |-> "none", elBefore |-> NullEl, el |-> NullEl, triggers |-> 0,
     focusCalls |-> 0, focusedEl |-> NullEl, threw |-> FALSE,
     before |-> NoElState, after |-> NoElState]

\* The record of a mount or patch that rendered r and ended in the state w;
\* threw says that the effect ended by an exception.
Update(kind, r, w) ==
    [kind |-> kind, elBefore |-> refEl, el |-> r.el, triggers |-> triggersSinceUpdate,
     focusCalls |-> w.focusCalls, focusedEl |-> w.focusedEl, threw |-> w.threw,
     before |-> r.st, after |-> w.elState]

\* The first render r, then mounted: the effect runs for the first time.
Mount(r) ==
    /\ status = CREATED
    /\ setup # "pending"
    /\ status' = MOUNTED
    /\ LET w0 == Rendered(r)
           w1 == IF hasEffect THEN Effect(w0, ComputeDeps(w0)) ELSE w0
       IN /\ deps' = IF hasEffect THEN ComputeDeps(w0) ELSE deps
          /\ SetWorld(w1)
          /\ lastUpdate' = Update("mount", r, w1)
    /\ mountEl' = r.el
    /\ triggersSinceUpdate' = 0
    /\ UNCHANGED <<envVars, setupVars, obsVars, patched, calls, forceFocusCount>>

\* A render r, then patched: the effect runs again when a dependency
\* changed, after the cleanup of its previous run.
Patch(r) ==
    /\ status = MOUNTED
    /\ patched' = TRUE
    /\ LET w0 == Rendered(r)
           again == hasEffect /\ ShouldReapply(deps, ComputeDeps(w0))
           w1 == IF again THEN Effect(RunCleanup(w0, cleanup), ComputeDeps(w0)) ELSE w0
       IN /\ deps' = IF again THEN ComputeDeps(w0) ELSE deps
          /\ SetWorld(w1)
          /\ lastUpdate' = Update("patch", r, w1)
    /\ triggersSinceUpdate' = 0
    /\ UNCHANGED <<envVars, setupVars, obsVars, status, calls, forceFocusCount, mountEl>>

FirstRender == \E r \in Renders : Mount(r)

Rerender == \E r \in Renders : Patch(r)

\* destroy(): willUnmount runs the cleanup of a mounted component, then the
\* status becomes DESTROYED.
Destroy ==
    /\ status # DESTROYED
    /\ status' = DESTROYED
    /\ LET w0 == Rendered([el |-> refEl, st |-> elState])
       IN SetWorld(IF hasEffect /\ status = MOUNTED THEN RunCleanup(w0, cleanup) ELSE w0)
    /\ UNCHANGED <<envVars, setupVars, obsVars, deps, patched, calls, focusVars>>

-----------------------------------------------------------------------------
(* useService: properties *)

Guarded(c) == calls[c].guarded /\ calls[c].pc # "idle"

\* C1 (as stated): a guarded call entered while the component is alive,
\* whose underlying call settles (fulfilled or rejected) after the component
\* was destroyed, leaves the promise the wrapper returned pending for ever.
C1_NeverSettles ==
    \A c \in CallIds :
        (Guarded(c) /\ calls[c].aliveAtInvoke
            /\ calls[c].under \in {"fulfilled", "rejected"} /\ calls[c].destroyedAtSettle)
        => calls[c].wrapper = "pending"

\* C2: a guarded call entered when the component is already destroyed never
\* invokes the underlying implementation.
C2_NoUnderlyingCall ==
    \A c \in CallIds :
        (Guarded(c) /\ ~calls[c].aliveAtInvoke) => calls[c].fnCalls = 0

C2_Witness ==
    \E c \in CallIds :
        Guarded(c) /\ ~calls[c].aliveAtInvoke /\ calls[c].pc = "done" /\ calls[c].fnCalls = 0

\* C3 (as stated): a guarded call entered when the component is already
\* destroyed throws "Component is destroyed" to its caller during the call.
C3_ThrowsSynchronously ==
    \A c \in CallIds :
        (Guarded(c) /\ ~calls[c].aliveAtInvoke)
        => (calls[c].thrown /\ calls[c].wrapperVal = ErrDestroyed)

\* C3 (amended): a guarded call entered when the component is already
\* destroyed throws nothing to its caller; it returns a promise that is
\* rejected with "Component is destroyed".
C3_RejectsWhenDestroyed ==
    \A c \in CallIds :
        (Guarded(c) /\ ~calls[c].aliveAtInvoke)
        => (~calls[c].thrown /\ calls[c].wrapper = "rejected"
            /\ calls[c].wrapperVal = ErrDestroyed)

C3_Witness ==
    \E c \in CallIds :
        Guarded(c) /\ ~calls[c].aliveAtInvoke /\ calls[c].wrapper = "rejected"

\* C9: useService with a name that is not in env.services throws
\* "Service <name> is not available" and returns nothing, whether or not
\* SERVICES_METADATA lists the name.
C9_UnavailableService ==
    (hook = "useService" /\ setup # "pending" /\ ~services[serviceName].present)
    => (setup = "threw" /\ svc.error = ErrNotAvailable(serviceName) /\ svc.kind = "none"
        /\ \A c \in CallIds : calls[c].pc = "idle")

C9_Witness ==
    /\ hook = "useService" /\ setup = "threw"
    /\ ~services[serviceName].present /\ ~metadata[serviceName].listed
    /\ status = DESTROYED

\* C13: when the component is destroyed at the moment the wrapper resumes
\* after a fulfilled underlying call, the result is not delivered: the
\* promise the wrapper returned stays pending.  This covers a destruction
\* between the fulfilment and the run of the continuation.
C13_NoDeliveryAfterDestroy ==
    \A c \in CallIds :
        (Guarded(c) /\ calls[c].pc = "done" /\ calls[c].under = "fulfilled"
            /\ calls[c].destroyedAtResume)
        => (calls[c].wrapper = "pending" /\ calls[c].wrapperVal = <<>>)

C13_Witness ==
    \E c \in CallIds :
        /\ Guarded(c) /\ calls[c].pc = "done" /\ calls[c].under = "fulfilled"
        /\ ~calls[c].destroyedAtSettle /\ calls[c].destroyedAtResume
        /\ calls[c].wrapper = "pending"

\* A guarded call that started the underlying implementation once, with the
\* arguments of the call and, for an object service, the service as this.
InvokedOnce(c) ==
    /\ calls[c].fnCalls = 1
    /\ calls[c].fnArgs = calls[c].args
    /\ svc.kind = "proxy" => calls[c].fnThis = "service"

\* C14 (as stated): a guarded call entered while the component is alive,
\* whose underlying call settles while the component is still alive, settles
\* as the underlying call did (same outcome, same value), once the wrapper
\* has run to its end; the underlying implementation was invoked once.
C14_SettlesAsUnderlying ==
    \A c \in CallIds :
        (Guarded(c) /\ calls[c].aliveAtInvoke /\ calls[c].pc = "done"
            /\ ~calls[c].destroyedAtSettle)
        => /\ calls[c].wrapper = calls[c].under
           /\ calls[c].wrapperVal = calls[c].underVal
           /\ InvokedOnce(c)

\* C14 (amended): a guarded call entered while the component is alive
\* invokes the underlying implementation once (same arguments, the service
\* as receiver for an object service); when the component is still not
\* destroyed at the moment the wrapper resumes after the underlying call
\* settled, the wrapper settles as the underlying call did.
C14_SettlesAsUnderlyingAtResume ==
    \A c \in CallIds :
        (Guarded(c) /\ calls[c].aliveAtInvoke)
        => /\ InvokedOnce(c)
           /\ (calls[c].pc = "done" /\ ~calls[c].destroyedAtResume)
                => /\ calls[c].wrapper = calls[c].under
                   /\ calls[c].wrapperVal = calls[c].underVal

C14_Witness ==
    \E c \in CallIds :
        /\ Guarded(c) /\ calls[c].aliveAtInvoke /\ calls[c].pc = "done"
        /\ svc.kind = "proxy" /\ calls[c].fnThis = "service"
        /\ calls[c].wrapper = "fulfilled" /\ calls[c].wrapperVal = calls[c].underVal
        /\ calls[c].args = "a2"

\* Every call made so far runs the underlying implementation directly: it is
\* not guarded, the implementation ran once whatever the status, and the
\* caller holds the promise of the implementation.
Unguarded(c) ==
    /\ ~calls[c].guarded
    /\ calls[c].fnCalls = 1
    /\ calls[c].fnArgs = calls[c].args
    /\ calls[c].wrapper = calls[c].under
    /\ calls[c].wrapperVal = calls[c].underVal

\* C17: a service that SERVICES_METADATA does not list is returned as it
\* is, and its members run also after the component was destroyed; of an
\* object service that is listed, exactly the listed methods are guarded,
\* every other member is the service's own; the service object in the
\* registry is left as it was.
C17_GuardsOnlyListed ==
    (hook = "useService" /\ setup = "done")
    => /\ services = Registry
       /\ ~metadata[serviceName].listed
            => /\ svc.kind = "raw" /\ svc.guardedMethods = {}
               /\ \A c \in CallIds : calls[c].pc # "idle" => Unguarded(c)
       /\ (metadata[serviceName].listed /\ ~services[serviceName].isFunction)
            => /\ svc.kind = "proxy"
               /\ svc.guardedMethods = Range(metadata[serviceName].methods)
               /\ \A c \in CallIds : calls[c].pc # "idle"
                    => IF calls[c].method \in Range(metadata[serviceName].methods)
                       THEN calls[c].guarded
                       ELSE Unguarded(c)

C17_Witness ==
    /\ hook = "useService" /\ svc.kind = "proxy"
    /\ \E c \in CallIds :
            /\ calls[c].method = "m2" /\ ~calls[c].aliveAtInvoke
            /\ calls[c].fnCalls = 1 /\ calls[c].wrapper = "fulfilled"
    /\ \E c \in CallIds : calls[c].method = "m1" /\ calls[c].guarded

-----------------------------------------------------------------------------
(* useBus: properties *)

\* C4 (as stated): every dispatch of the subscribed event after useBus was
\* called and before teardown, mounted or not, runs the callback exactly
\* once with this = the component.
C4_EveryDispatchSinceSetup ==
    (hook = "useBus" /\ lastDispatch.type = eventName
        /\ lastDispatch.setup = "done" /\ lastDispatch.status # DESTROYED)
    => (lastDispatch.calls = 1 /\ lastDispatch.thisArgs = {"component"})

\* C4 (amended): every dispatch of the subscribed event while the component
\* is mounted runs the callback exactly once with this = the component; a
\* dispatch before the component is mounted does not run it.
C4_EveryDispatchWhileMounted ==
    (hook = "useBus" /\ lastDispatch.type = eventName /\ lastDispatch.setup = "done")
    => /\ lastDispatch.status = MOUNTED
            => (lastDispatch.calls = 1 /\ lastDispatch.thisArgs = {"component"})
       /\ lastDispatch.status = CREATED => lastDispatch.calls = 0

C4_Witness ==
    /\ hook = "useBus" /\ lastDispatch.type = eventName
    /\ lastDispatch.status = MOUNTED /\ lastDispatch.calls = 1 /\ patched

\* C5: no dispatch made after the teardown of the component runs the callback.
C5_NoCallbackAfterTeardown ==
    (hook = "useBus" /\ lastDispatch.status = DESTROYED) => lastDispatch.calls = 0

C5_Witness ==
    /\ hook = "useBus" /\ lastDispatch.status = DESTROYED
    /\ lastDispatch.type = eventName /\ binds > 0 /\ patched

-----------------------------------------------------------------------------
(* useListener: properties *)

\* useListener was called as (eventName, selector, handler, options) with a
\* selector that is not the empty string.
WithSelector == largs[1].t = "string" /\ largs[1].v # ""

\* The handler of the call, in either argument shape.
HandlerArg == IF largs[1].t = "string" THEN largs[2] ELSE largs[1]

ListenedEvent ==
    hook = "useListener" /\ setup = "done" /\ lastEvent.type = eventName

\* C6 (as stated): with a selector, an event dispatched inside the subtree
\* of the root (while the listener is registered) runs the handler if and
\* only if its target is a matching element or a descendant of one.
C6_MatchOrDescendant ==
    (ListenedEvent /\ WithSelector /\ lastEvent.status = MOUNTED /\ lastEvent.inRoot)
    => (lastEvent.calls > 0 <=> lastEvent.matchOnPath)

\* C6 (amended): with a selector, an event dispatched inside the subtree of
\* the root while the component is mounted runs the handler (once) if and
\* only if its target is, or descends from, a matching element that lies
\* in the subtree of the root (the root included).
C6_MatchInsideRoot ==
    (ListenedEvent /\ WithSelector /\ lastEvent.status = MOUNTED /\ lastEvent.inRoot)
    => (lastEvent.calls = (IF lastEvent.matchInRoot THEN 1 ELSE 0))

C6_Witness ==
    /\ ListenedEvent /\ WithSelector /\ lastEvent.status = MOUNTED /\ lastEvent.inRoot
    /\ lastEvent.matchInRoot /\ lastEvent.calls = 1

\* C7: without a selector, every event of the listened type that reaches the
\* root while the component is mounted runs the handler exactly once with
\* this = the component, and no event after teardown runs it.
C7_EveryEventUntilTeardown ==
    (ListenedEvent /\ ~WithSelector)
    => /\ (lastEvent.status = MOUNTED /\ lastEvent.inRoot)
            => (lastEvent.calls = 1 /\ lastEvent.thisArgs = {"component"})
       /\ lastEvent.status = DESTROYED => lastEvent.calls = 0

C7_Witness ==
    /\ ListenedEvent /\ ~WithSelector /\ boundHandler.capture
    /\ lastEvent.status = DESTROYED /\ lastEvent.inRoot /\ patched

\* C8: useListener with a handler that is not a function, in either
\* argument shape, throws "The handler must be a function", and no listener
\* is ever registered on the root because of that call.
C8_NonFunctionHandler ==
    (hook = "useListener" /\ setup # "pending" /\ HandlerArg.t # "function")
    => (setup = "threw" /\ thrown = ErrHandler /\ elListeners = {})

C8_Witness ==
    /\ hook = "useListener" /\ setup = "threw" /\ largs[1].t = "string"
    /\ status = MOUNTED /\ elListeners = {}

\* C15: with a selector, an event dispatched inside the subtree of the root
\* never runs the handler when the only matching elements on its way are
\* strict ancestors of the root; while the component is mounted it runs the
\* handler when the root itself matches; and it runs the handler at most
\* once, with this = the component and the event as the argument.
C15_WalkStopsAtRoot ==
    (ListenedEvent /\ WithSelector /\ lastEvent.inRoot)
    => /\ lastEvent.calls <= 1
       /\ ~lastEvent.matchInRoot => lastEvent.calls = 0
       /\ (lastEvent.rootMatches /\ lastEvent.status = MOUNTED) => lastEvent.calls = 1
       /\ lastEvent.calls = 1
            => (lastEvent.thisArgs = {"component"} /\ lastEvent.args = {<<"event">>})

C15_Witness ==
    /\ ListenedEvent /\ WithSelector /\ lastEvent.inRoot /\ lastEvent.status = MOUNTED
    /\ lastEvent.matchOnPath /\ ~lastEvent.matchInRoot /\ lastEvent.calls = 0

-----------------------------------------------------------------------------
(* useBus and useListener: the subscription *)

\* The listeners the hook call has registered on its target.
Registered == busListeners \cup elListeners

\* The component was mounted at some time.
WasMounted == lastUpdate.kind # "none"

SubscriptionInvariant ==
    (hook \in {"useBus", "useListener"} /\ setup = "done")
    => /\ Cardinality(Registered) <= 1
       /\ Registered # {} => status = MOUNTED
       /\ status = MOUNTED => (Cardinality(Registered) = 1 /\ adds = 1 /\ removes = 0)
       /\ status = CREATED => adds = 0
       /\ status = DESTROYED
            => /\ Registered = {}
               /\ adds = (IF WasMounted THEN 1 ELSE 0)
               /\ removes = adds

-----------------------------------------------------------------------------
(* useAutofocus: properties *)

\* C10: outside a small environment, when the referenced element was absent
\* at the first render, the patch at which it appears focuses it exactly
\* once, and a later patch that finds the same element, with no call of the
\* trigger since the previous update, does not focus again.
C10_FocusOnceOnAppearance ==
    (hook = "useAutofocus" /\ ~isSmall /\ mountEl = NullEl /\ lastUpdate.kind = "patch")
    => /\ (lastUpdate.elBefore = NullEl /\ lastUpdate.el # NullEl)
            => (lastUpdate.focusCalls = 1 /\ lastUpdate.focusedEl = lastUpdate.el)
       /\ (lastUpdate.el = lastUpdate.elBefore /\ lastUpdate.triggers = 0)
            => lastUpdate.focusCalls = 0

C10_Witness ==
    /\ hook = "useAutofocus" /\ ~isSmall /\ mountEl = NullEl
    /\ lastUpdate.kind = "patch" /\ lastUpdate.el # NullEl
    /\ lastUpdate.el = lastUpdate.elBefore /\ lastUpdate.triggers = 0
    /\ lastUpdate.focusCalls = 0

\* useAutofocus was called outside a small environment.
Autofocus == hook = "useAutofocus" /\ ~isSmall

\* C11: (outside a small environment, the other case being C12's) a call of
\* the trigger focuses nothing and moves no caret by itself; the next mount
\* or patch after one or more calls focuses the referenced element once,
\* also when the reference is the element of the previous update, and
\* focuses nothing when the reference is null at that update.
C11_TriggerRefocusesAtNextUpdate ==
    /\ [](Autofocus /\ lastUpdate.kind # "none" /\ lastUpdate.triggers > 0
            => IF lastUpdate.el # NullEl
               THEN lastUpdate.focusCalls = 1 /\ lastUpdate.focusedEl = lastUpdate.el
               ELSE lastUpdate.focusCalls = 0)
    /\ [][triggersSinceUpdate' > triggersSinceUpdate
            => (lastUpdate' = lastUpdate /\ elState' = elState /\ refEl' = refEl)]_vars

C11_Witness ==
    /\ Autofocus /\ lastUpdate.kind = "patch" /\ lastUpdate.triggers > 0
    /\ lastUpdate.el # NullEl /\ lastUpdate.el = lastUpdate.elBefore
    /\ lastUpdate.focusCalls = 1

\* C12: in a small environment no mount or patch, whatever the element
\* rendered and however often the trigger was called, focuses anything or
\* changes the selection of the referenced element, and the hook registers
\* no effect.
C12_SmallIsNoOp ==
    (hook = "useAutofocus" /\ isSmall)
    => /\ lastUpdate.focusCalls = 0
       /\ lastUpdate.focusedEl = NullEl
       /\ lastUpdate.after = lastUpdate.before
       /\ ~hasEffect
       /\ forceFocusCount = 0

C12_Witness ==
    /\ hook = "useAutofocus" /\ isSmall
    /\ lastUpdate.kind = "patch" /\ lastUpdate.triggers > 0
    /\ lastUpdate.elBefore = NullEl /\ tagName(lastUpdate.el) = "INPUT"
    /\ lastUpdate.before.valueLen > 0
    /\ lastUpdate.after.selection = <<0, 0>>

\* C18: (outside a small environment) a patch that follows one call of the
\* trigger, or several, with no update in between, focuses a present
\* element exactly once; a call of the trigger is no update of its own: it
\* changes the counter and leaves the element and the record of the last
\* update as they are, so without a further update nothing is focused.
C18_OneFocusPerUpdate ==
    /\ [](Autofocus /\ lastUpdate.kind = "patch" /\ lastUpdate.triggers >= 1
            /\ lastUpdate.el # NullEl
            => lastUpdate.focusCalls = 1)
    /\ [][forceFocusCount' # forceFocusCount
            => (lastUpdate' = lastUpdate /\ elState' = elState /\ status' = status)]_vars

C18_Witness ==
    /\ Autofocus /\ lastUpdate.kind = "patch" /\ lastUpdate.triggers = 2
    /\ lastUpdate.el # NullEl /\ lastUpdate.el = lastUpdate.elBefore
    /\ lastUpdate.focusCalls = 1 /\ status = DESTROYED

\* C19 (as stated): an update that focuses an element with the tag INPUT or
\* TEXTAREA sets selectionStart and selectionEnd to the length of the
\* value the element has then (and the effect ends normally); an update
\* that focuses an element of another tag leaves its selection as it was.
C19_SelectionAtEnd ==
    (hook = "useAutofocus" /\ lastUpdate.focusCalls > 0)
    => IF tagName(lastUpdate.focusedEl) \in {"INPUT", "TEXTAREA"}
       THEN /\ ~lastUpdate.threw
            /\ lastUpdate.after.valueLen = lastUpdate.before.valueLen
            /\ lastUpdate.after.selection =
                    <<lastUpdate.before.valueLen, lastUpdate.before.valueLen>>
       ELSE lastUpdate.after = lastUpdate.before /\ ~lastUpdate.threw

-----------------------------------------------------------------------------
Init ==
    /\ hook \in Hooks
    /\ status = CREATED
    /\ setup = "pending"
    /\ thrown = NoError
    /\ hasEffect = FALSE
    /\ deps = <<>>
    /\ cleanup = NoCleanup
    /\ patched = FALSE
    /\ services = Registry
    /\ metadata \in IF hook = "useService" THEN Metadatas ELSE {[n \in ServiceNames |-> NotListed]}
    /\ svc = NoService
    /\ calls = [c \in CallIds |-> IdleCall]
    /\ busListeners = {}
    /\ binds = 0
    /\ adds = 0
    /\ removes = 0
    /\ lastDispatch = NoDispatch
    /\ eventName = "none"
    /\ serviceName = "none"
    /\ largs = <<Undefined, Undefined, Undefined>>
    /\ boundHandler = NoHandler
    /\ elListeners = {}
    /\ lastEvent = NoEvent
    /\ isSmall \in IF hook = "useAutofocus" THEN BOOLEAN ELSE {FALSE}
    /\ trigger = "none"
    /\ forceFocusCount = 0
    /\ refEl = NullEl
    /\ elState = NoElState
    /\ triggersSinceUpdate = 0
    /\ mountEl = NullEl
    /\ lastUpdate = NoUpdate

Next ==
    \/ \E n \in ServiceNames : Setup_useService(n)
    \/ \E c \in CallIds, m \in Methods \cup {"call"}, a \in ArgValues : Invoke(c, m, a)
    \/ \E c \in CallIds, v \in Results : Settle(c, "fulfilled", <<v>>)
    \/ \E c \in CallIds, e \in Errors : Settle(c, "rejected", <<e>>)
    \/ \E c \in CallIds : Resume(c)
    \/ \E ev \in BusEvents : Setup_useBus(ev)
    \/ \E ev \in BusEvents : BusDispatch(ev)
    \/ \E ev \in ListenedEvents, a1 \in Arg1Values, a2 \in Arg2Values, a3 \in Arg3Values :
            Setup_useListener(ev, a1, a2, a3)
    \/ \E ev \in DomEvents, t \in Elements, m \in MatchSets : DomDispatch(ev, t, m)
    \/ Setup_useAutofocus
    \/ Trigger
    \/ \E n \in 0 .. MaxValueLen, c \in 0 .. MaxValueLen : UserEdits(n, c)
    \/ FirstRender
    \/ Rerender
    \/ Destroy

Spec == Init /\ [][Next]_vars

\* A component that calls useBus or useListener and is destroyed at some
\* time.
SubscriptionInit == Init /\ hook \in {"useBus", "useListener"}

SubscriptionNext ==
    \/ \E ev \in BusEvents : Setup_useBus(ev)
    \/ \E ev \in BusEvents : BusDispatch(ev)
    \/ \E ev \in ListenedEvents, a1 \in Arg1Values, a2 \in Arg2Values, a3 \in Arg3Values :
            Setup_useListener(ev, a1, a2, a3)
    \/ \E ev \in DomEvents, t \in Elements, m \in MatchSets : DomDispatch(ev, t, m)
    \/ FirstRender
    \/ Rerender
    \/ Destroy

SubscriptionSpec == SubscriptionInit /\ [][SubscriptionNext]_vars /\ WF_vars(Destroy)
====
